---- MODULE Spec2Model ----
(***************************************************************************)
(* Model of src/app.py: the solar-plant dashboard script.  One run of the  *)
(* script (a "pass") loads the CSV through the cached loader, asks the     *)
(* date widget for a range, slices the table, picks the generation column  *)
(* and computes the statistics, the resampled trend, the hourly profile    *)
(* and the correlation pairs.  Every widget change reruns the script.      *)
(*                                                                         *)
(* Text is modelled as a sequence of one-character strings, a timestamp as *)
(* minutes since 1970-01-01 00:00, a calendar date as days since           *)
(* 1970-01-01, and pandas' NaT as the sentinel NaT below.                  *)
(***************************************************************************)
EXTENDS Integers, Sequences, FiniteSets, TLC

(***************************************************************************)
(* Bounds of the model.                                                    *)
(***************************************************************************)
\* longest CSV body (data rows) explored under the standard header
MaxRows == 3
\* longest CSV body explored under the other headers
MaxRowsAlt == 1

(***************************************************************************)
(* Text: column names and the classifier's keywords.                       *)
(***************************************************************************)
LowerCase == <<"a", "b", "c", "d", "e", "f", "g", "h", "i", "j", "k", "l", "m",
               "n", "o", "p", "q", "r", "s", "t", "u", "v", "w", "x", "y", "z">>
UpperCase == <<"A", "B", "C", "D", "E", "F", "G", "H", "I", "J", "K", "L", "M",
               "N", "O", "P", "Q", "R", "S", "T", "U", "V", "W", "X", "Y", "Z">>

\* str.upper() on one character
UpperChar(c) ==
    IF \E i \in 1..Len(LowerCase) : LowerCase[i] = c
    THEN UpperCase[CHOOSE i \in 1..Len(LowerCase) : LowerCase[i] = c]
    ELSE c

\* col.upper()
Upper(s) == [i \in 1..Len(s) |-> UpperChar(s[i])]

\* Python's  k in s  on strings: k is a contiguous substring of s
Contains(s, k) ==
    \E i \in 1..(Len(s) - Len(k) + 1) : SubSeq(s, i, i + Len(k) - 1) = k

NameDateHourNMT == <<"D", "a", "t", "e", "-", "H", "o", "u", "r", "(", "N", "M", "T", ")">>
NameDATE_TIME == <<"D", "A", "T", "E", "_", "T", "I", "M", "E">>
NameDATE == <<"D", "A", "T", "E">>
NameHOUR == <<"H", "O", "U", "R">>
NameSystemProduction == <<"S", "y", "s", "t", "e", "m", "P", "r", "o", "d", "u", "c", "t", "i", "o", "n">>
NameRadiation == <<"R", "a", "d", "i", "a", "t", "i", "o", "n">>
NameTemperature == <<"T", "e", "m", "p", "e", "r", "a", "t", "u", "r", "e">>
NamePowerKw == <<"p", "o", "w", "e", "r", "_", "k", "w">>
NamePowerNote == <<"P", "o", "w", "e", "r", "N", "o", "t", "e">>

KwGENERATION == <<"G", "E", "N", "E", "R", "A", "T", "I", "O", "N">>
KwYIELD == <<"Y", "I", "E", "L", "D">>
KwPOWER == <<"P", "O", "W", "E", "R">>
KwPRODUCTION == <<"P", "R", "O", "D", "U", "C", "T", "I", "O", "N">>

(***************************************************************************)
(* Calendar arithmetic (proleptic Gregorian, as datetime / pandas).        *)
(***************************************************************************)
NaT == -1

MinutesPerDay == 1440
MinutesPerHour == 60

IsLeap(y) == (y % 4 = 0 /\ y % 100 # 0) \/ y % 400 = 0

DaysInMonth(y, m) ==
    IF m = 2 THEN (IF IsLeap(y) THEN 29 ELSE 28)
    ELSE IF m \in {4, 6, 9, 11} THEN 30 ELSE 31

\* days since 1970-01-01 of the civil date y-m-d
DaysFromCivil(y, m, d) ==
    LET yy  == IF m <= 2 THEN y - 1 ELSE y
        era == yy \div 400
        yoe == yy - era * 400
        mp  == IF m > 2 THEN m - 3 ELSE m + 9
        doy == (153 * mp + 2) \div 5 + d - 1
        doe == yoe * 365 + yoe \div 4 - yoe \div 100 + doy
    IN  era * 146097 + doe - 719468

\* the civil date [y, m, d] of a day number
CivilFromDays(z) ==
    LET zz  == z + 719468
        era == zz \div 146097
        doe == zz - era * 146097
        yoe == (doe - doe \div 1460 + doe \div 36524 - doe \div 146096) \div 365
        doy == doe - (365 * yoe + yoe \div 4 - yoe \div 100)
        mp  == (5 * doy + 2) \div 153
        d   == doy - (153 * mp + 2) \div 5 + 1
        m   == IF mp < 10 THEN mp + 3 ELSE mp - 9
        y   == yoe + era * 400 + (IF m <= 2 THEN 1 ELSE 0)
    IN  [y |-> y, m |-> m, d |-> d]

\* Monday = 0 .. Sunday = 6 (1970-01-01 was a Thursday)
Weekday(day) == (day + 3) % 7

\* Series.dt.date : the calendar date of a timestamp, NaT for NaT
DateOf(ts) == IF ts = NaT THEN NaT ELSE ts \div MinutesPerDay

\* Series.dt.hour : the hour of day of a timestamp, NaT (NaN) for NaT
HourOf(ts) == IF ts = NaT THEN NaT ELSE (ts % MinutesPerDay) \div MinutesPerHour

\* pd.to_datetime(date) : midnight of a calendar date
Midnight(day) == day * MinutesPerDay

(***************************************************************************)
(* The timestamp text  dd.mm.YYYY-HH:MM , held as its five digit groups.   *)
(***************************************************************************)
RawStamp(d, m, y, H, M) == [d |-> d, m |-> m, y |-> y, H |-> H, M |-> M]

\* pd.to_datetime(text, format='%d.%m.%Y-%H:%M', errors='coerce')
ToDatetime(raw) ==
    IF /\ raw.m \in 1..12
       /\ raw.d >= 1
       /\ raw.d <= DaysInMonth(raw.y, raw.m)
       /\ raw.H \in 0..23
       /\ raw.M \in 0..59
    THEN DaysFromCivil(raw.y, raw.m, raw.d) * MinutesPerDay
         + raw.H * MinutesPerHour + raw.M
    ELSE NaT

(***************************************************************************)
(* The CSV source.  A column is its header name and the kind of cell it    *)
(* holds; a data row carries the timestamp text and the numeric readings.  *)
(***************************************************************************)
Col(name, kind) == [name |-> name, kind |-> kind]

HeaderStandard ==
    << Col(NameDateHourNMT, "ts"), Col(NameSystemProduction, "gen"),
       Col(NameRadiation, "rad"), Col(NameTemperature, "tmp") >>
HeaderNoGeneration ==
    << Col(NameDateHourNMT, "ts"), Col(NameRadiation, "rad"),
       Col(NameTemperature, "tmp") >>
HeaderNoTimestamp ==
    << Col(NameSystemProduction, "gen"), Col(NameRadiation, "rad") >>
HeaderCanonical ==
    << Col(NameDATE_TIME, "ts"), Col(NamePowerKw, "gen") >>
HeaderTextColumn ==
    << Col(NameDateHourNMT, "ts"), Col(NamePowerNote, "text"),
       Col(NameSystemProduction, "gen") >>

AltHeaders ==
    {HeaderNoGeneration, HeaderNoTimestamp, HeaderCanonical, HeaderTextColumn}

RawRow(raw, gen, rad, tmp) == [raw |-> raw, gen |-> gen, rad |-> rad, tmp |-> tmp]

\* Fri 31.01.2020-00:00, Fri 31.01.2020-23:59, Sun 02.02.2020-12:00,
\* Mon 03.02.2020-00:00 and the impossible date 31.02.2020-10:00
RawRows ==
    { RawRow(RawStamp(31, 1, 2020, 0, 0), 1, 10, 21),
      RawRow(RawStamp(31, 1, 2020, 23, 59), 2, 20, 22),
      RawRow(RawStamp(2, 2, 2020, 12, 0), 4, 30, 23),
      RawRow(RawStamp(3, 2, 2020, 0, 0), 8, 40, 24),
      RawRow(RawStamp(31, 2, 2020, 10, 0), 16, 50, 25) }

SeqsUpTo(S, n) == UNION {[1..k -> S] : k \in 0..n}

Source(kind, header, rows) == [kind |-> kind, header |-> header, rows |-> rows]

SourceMissing == Source("missing", <<>>, <<>>)
SourceMalformed == Source("malformed", <<>>, <<>>)

Sources ==
    {SourceMissing, SourceMalformed}
    \cup {Source("table", HeaderStandard, rows) : rows \in SeqsUpTo(RawRows, MaxRows)}
    \cup {Source("table", h, rows) : h \in AltHeaders, rows \in SeqsUpTo(RawRows, MaxRowsAlt)}

(***************************************************************************)
(* load_and_process_data                                                   *)
(***************************************************************************)
\* pd.DataFrame()
EmptyFrame == [columns |-> <<>>, rows |-> <<>>]

\* DataFrame.empty : any axis of length 0
IsEmpty(df) == Len(df.columns) = 0 \/ Len(df.rows) = 0

\* df.rename(columns={'Date-Hour(NMT)': 'DATE_TIME'})
RenameColumns(header) ==
    [i \in 1..Len(header) |->
        IF header[i].name = NameDateHourNMT
        THEN Col(NameDATE_TIME, header[i].kind)
        ELSE header[i]]

HasColumn(header, name) == \E i \in 1..Len(header) : header[i].name = name

IsIndexColumn(c) == c.name = NameDATE_TIME

\* the columns left after 'DATE' and 'HOUR' are added and 'DATE_TIME' has
\* become the index
FrameColumns(header) ==
    SelectSeq(header, LAMBDA c : ~IsIndexColumn(c))
    \o << Col(NameDATE, "date"), Col(NameHOUR, "hour") >>

Row(ts, gen, rad, tmp) == [ts |-> ts, gen |-> gen, rad |-> rad, tmp |-> tmp]

\* the try block of load_and_process_data with no exception raised
ProcessFrame(header, rows) ==
    [columns |-> FrameColumns(header),
     rows |-> [i \in 1..Len(rows) |->
                 Row(ToDatetime(rows[i].raw), rows[i].gen, rows[i].rad, rows[i].tmp)]]

LoadResult(df, diag) == [df |-> df, diag |-> diag]

\* the loader without its  except KeyError  clause: the missing column is
\* caught by the generic handler
LoadAndProcessDataNoKeyError(src) ==
    IF src.kind = "missing"
    THEN LoadResult(EmptyFrame, "source-unavailable")
    ELSE IF src.kind = "malformed" \/ ~HasColumn(RenameColumns(src.header), NameDATE_TIME)
    THEN LoadResult(EmptyFrame, "malformed-input")
    ELSE LoadResult(ProcessFrame(RenameColumns(src.header), src.rows), "none")

LoadAndProcessData(src) ==
    IF src.kind = "missing"
    THEN LoadResult(EmptyFrame, "source-unavailable")
    ELSE IF src.kind = "malformed"
    THEN LoadResult(EmptyFrame, "malformed-input")
    ELSE IF ~HasColumn(RenameColumns(src.header), NameDATE_TIME)
    THEN LoadResult(EmptyFrame, "schema-mismatch")
    ELSE LoadResult(ProcessFrame(RenameColumns(src.header), src.rows), "none")

(***************************************************************************)
(* st.cache_data: one entry per (function, argument); the argument is the  *)
(* constant file_path, so the session holds at most one entry.             *)
(***************************************************************************)
NoCache == [filled |-> FALSE, value |-> LoadResult(EmptyFrame, "none")]

\* a loader that lost its @st.cache_data decorator: never a hit
CacheHitNever(c) == FALSE

CacheHit(c) == c.filled

\* the cached loader: the stored value on a hit, a fresh parse on a miss
CachedLoad(c, src) ==
    IF CacheHit(c) THEN c.value ELSE LoadAndProcessData(src)

(***************************************************************************)
(* Sequence helpers.                                                       *)
(***************************************************************************)
Range(q) == {q[i] : i \in DOMAIN q}

SetMin(S) == CHOOSE x \in S : \A y \in S : x <= y
SetMax(S) == CHOOSE x \in S : \A y \in S : y <= x

RECURSIVE SumSeq(_)
SumSeq(q) == IF q = <<>> THEN 0 ELSE Head(q) + SumSeq(Tail(q))

(***************************************************************************)
(* The index and the date bounds (lines 58-59).                            *)
(***************************************************************************)
IndexOf(rows) == [i \in 1..Len(rows) |-> rows[i].ts]

ValidStamps(rows) == {rows[i].ts : i \in 1..Len(rows)} \ {NaT}

\* df.index.min().date() : NaT is skipped; an all-NaT index gives NaT
MinDate(rows) ==
    IF ValidStamps(rows) = {} THEN NaT ELSE DateOf(SetMin(ValidStamps(rows)))

\* df.index.max().date()
MaxDate(rows) ==
    IF ValidStamps(rows) = {} THEN NaT ELSE DateOf(SetMax(ValidStamps(rows)))

(***************************************************************************)
(* df.loc[start_date:end_date] on the DatetimeIndex (line 69): label       *)
(* slicing with Timestamp bounds, as Index.slice_locs does it.             *)
(***************************************************************************)
\* is_monotonic_increasing / is_monotonic_decreasing: False with any NaT
IsMonotonicIncreasing(idx) ==
    /\ \A i \in 1..Len(idx) : idx[i] # NaT
    /\ \A i \in 1..Len(idx), j \in 1..Len(idx) : i < j => idx[i] <= idx[j]

IsMonotonicDecreasing(idx) ==
    /\ \A i \in 1..Len(idx) : idx[i] # NaT
    /\ \A i \in 1..Len(idx), j \in 1..Len(idx) : i < j => idx[i] >= idx[j]

Occurrences(idx, label) == {i \in 1..Len(idx) : idx[i] = label}

IsContiguous(S) == S = SetMin(S)..SetMax(S)

KeyError == -1

\* Index.get_slice_bound(label, side): a 0-based position, or KeyError
GetSliceBound(idx, label, side) ==
    LET occ == Occurrences(idx, label)
    IN  IF occ # {}
        THEN IF IsContiguous(occ)
             THEN (IF side = "left" THEN SetMin(occ) - 1 ELSE SetMax(occ))
             ELSE KeyError
        ELSE IF IsMonotonicIncreasing(idx)
        THEN (IF side = "left"
              THEN Cardinality({i \in 1..Len(idx) : idx[i] < label})
              ELSE Cardinality({i \in 1..Len(idx) : idx[i] <= label}))
        ELSE IF IsMonotonicDecreasing(idx)
        THEN (IF side = "left"
              THEN Cardinality({i \in 1..Len(idx) : idx[i] > label})
              ELSE Cardinality({i \in 1..Len(idx) : idx[i] >= label}))
        ELSE KeyError

SliceRaises(rows, start, end) ==
    \/ GetSliceBound(IndexOf(rows), start, "left") = KeyError
    \/ GetSliceBound(IndexOf(rows), end, "right") = KeyError

\* the rows of df.loc[start:end] when no KeyError is raised
LocSlice(rows, start, end) ==
    LET lo == GetSliceBound(IndexOf(rows), start, "left")
        hi == GetSliceBound(IndexOf(rows), end, "right")
    IN  IF lo < hi THEN SubSeq(rows, lo + 1, hi) ELSE <<>>

(***************************************************************************)
(* Column selection (lines 79-93).                                         *)
(***************************************************************************)
\* the keyword test without .upper()
IsGenerationNameCaseSensitive(name) ==
    \/ Contains(name, KwGENERATION)
    \/ Contains(name, KwYIELD)
    \/ Contains(name, KwPOWER)
    \/ Contains(name, KwPRODUCTION)

IsGenerationName(name) ==
    \/ Contains(Upper(name), KwGENERATION)
    \/ Contains(Upper(name), KwYIELD)
    \/ Contains(Upper(name), KwPOWER)
    \/ Contains(Upper(name), KwPRODUCTION)

\* generation_cols
GenerationCols(columns) == SelectSeq(columns, LAMBDA c : IsGenerationName(c.name))

\* pd.api.types.is_numeric_dtype / select_dtypes(include=np.number)
IsNumeric(c) == c.kind \in {"gen", "rad", "tmp", "hour"}

NumericCols(columns) == SelectSeq(columns, IsNumeric)

\* the value of a numeric cell; NaT stands for NaN

Cell(r, c) ==
    CASE c.kind = "gen" -> r.gen
      [] c.kind = "rad" -> r.rad
      [] c.kind = "tmp" -> r.tmp
      [] c.kind = "hour" -> HourOf(r.ts)
      [] OTHER -> NaT

\* the non-NaN values of a column, in row order
ColumnValues(rows, c) ==
    LET all == [i \in 1..Len(rows) |-> Cell(rows[i], c)]
    IN  SelectSeq(all, LAMBDA v : v # NaT)

(***************************************************************************)
(* The aggregates.                                                         *)
(***************************************************************************)
\* lines 102-108: the inputs of mean (sum / count), min and max
NoStats == [computed |-> FALSE, count |-> 0, sum |-> 0, min |-> 0, max |-> 0]

SummaryStats(rows, c) ==
    LET v == ColumnValues(rows, c)
    IN  [computed |-> TRUE, count |-> Len(v), sum |-> SumSeq(v),
         min |-> IF v = <<>> THEN NaT ELSE SetMin(Range(v)),
         max |-> IF v = <<>> THEN NaT ELSE SetMax(Range(v))]

\* the sorted sequence of a finite set of integers
RECURSIVE SortedSeq(_)
SortedSeq(S) ==
    IF S = {} THEN <<>> ELSE <<SetMin(S)>> \o SortedSeq(S \ {SetMin(S)})

\* line 120: resample_map, and the option that is not in it
ResampleOptions == {"Per Jam", "Harian", "Mingguan", "Bulanan"}

InResampleMap(option) == option \in {"Harian", "Mingguan", "Bulanan"}

\* the last calendar day of the month of a day
MonthEnd(day) ==
    LET c == CivilFromDays(day)
    IN  DaysFromCivil(c.y, c.m, DaysInMonth(c.y, c.m))

\* the Sunday on or after a day (the anchor of 'W', that is W-SUN)
WeekEnd(day) == day + (6 - Weekday(day))

\* the first calendar day of the month of a day
MonthStart(day) ==
    LET c == CivilFromDays(day)
    IN  DaysFromCivil(c.y, c.m, 1)

\* bins labelled by their first day: resample(rule, label='left',
\* closed='left') on week-start and month-start rules
BinLabelLeft(option, day) ==
    CASE option = "Harian" -> day
      [] option = "Mingguan" -> day - Weekday(day)
      [] option = "Bulanan" -> MonthStart(day)

\* the label of the bin that holds the rows of a day: 'D' bins are labelled
\* by their left edge, 'W' and 'M' bins are closed and labelled on the right
BinLabel(option, day) ==
    CASE option = "Harian" -> day
      [] option = "Mingguan" -> WeekEnd(day)
      [] option = "Bulanan" -> MonthEnd(day)

NextLabel(option, label) ==
    CASE option = "Harian" -> label + 1
      [] option = "Mingguan" -> label + 7
      [] option = "Bulanan" -> MonthEnd(label + 1)

\* every bin label from the first row's bin to the last row's bin
RECURSIVE BinLabels(_, _, _)
BinLabels(option, from, to) ==
    IF from > to THEN <<>>
    ELSE <<from>> \o BinLabels(option, NextLabel(option, from), to)

Point(x, y) == [x |-> x, y |-> y]

\* resample raises on an index that holds nothing but NaT
ResampleRaises(rows) == ValidStamps(rows) = {}

\* a sparse resample: groupby on the bin label, bins without rows left out
ResampleSparse(rows, c, option) ==
    LET valid  == SelectSeq(rows, LAMBDA r : r.ts # NaT)
        labels == SortedSeq({BinLabel(option, DateOf(valid[i].ts)) : i \in 1..Len(valid)})
        InBin(label) ==
            SelectSeq(valid, LAMBDA r : BinLabel(option, DateOf(r.ts)) = label)
    IN  [i \in 1..Len(labels) |->
            Point(Midnight(labels[i]), SumSeq(ColumnValues(InBin(labels[i]), c)))]

\* df_filtered[col].resample(rule).sum().reset_index() : NaT rows are
\* dropped, every bin between the first and the last gets an entry, and the
\* sum of a bin without rows is 0
Resample(rows, c, option) ==
    LET valid  == SelectSeq(rows, LAMBDA r : r.ts # NaT)
        labels == BinLabels(option, BinLabel(option, MinDate(rows)),
                            BinLabel(option, MaxDate(rows)))
        InBin(label) ==
            SelectSeq(valid, LAMBDA r : BinLabel(option, DateOf(r.ts)) = label)
    IN  [i \in 1..Len(labels) |->
            Point(Midnight(labels[i]), SumSeq(ColumnValues(InBin(labels[i]), c)))]

\* df_filtered.reset_index() : the rows as they are
ResetIndex(rows, c) == [i \in 1..Len(rows) |-> Point(rows[i].ts, Cell(rows[i], c))]

NoSeries == [computed |-> FALSE, option |-> "none", series |-> <<>>]

\* lines 121-124
Resampled(rows, c, option) ==
    [computed |-> TRUE, option |-> option,
     series |-> IF InResampleMap(option) THEN Resample(rows, c, option)
                ELSE ResetIndex(rows, c)]

HourGroup(hour, sum, count) == [hour |-> hour, sum |-> sum, count |-> count]

NoProfile == [computed |-> FALSE, groups |-> <<>>]

\* line 148: df_filtered.groupby('HOUR')[col].mean() : rows with a NaN
\* HOUR fall in no group; the mean of a group is sum / count
HourlyAvg(rows, c) ==
    LET hours == SortedSeq({HourOf(rows[i].ts) : i \in 1..Len(rows)} \ {NaT})
        Of(h) == ColumnValues(SelectSeq(rows, LAMBDA r : HourOf(r.ts) = h), c)
    IN  [computed |-> TRUE,
         groups |-> [i \in 1..Len(hours) |->
                       HourGroup(hours[i], SumSeq(Of(hours[i])), Len(Of(hours[i])))]]

NoCol == Col(<<>>, "none")

NoCorrelation ==
    [computed |-> FALSE, default |-> NoCol, col |-> NoCol, pairs |-> <<>>]

\* lines 161-163: 'Radiation' when it is numeric, else the first numeric column
DefaultCorrelationCol(numeric) ==
    IF \E i \in 1..Len(numeric) : numeric[i].name = NameRadiation
    THEN numeric[CHOOSE i \in 1..Len(numeric) : numeric[i].name = NameRadiation]
    ELSE numeric[1]

\* lines 169-171: the (x, y) points of the scatter, rows with a NaN dropped
Correlation(rows, columns, x, y) ==
    LET both == SelectSeq(rows, LAMBDA r : Cell(r, x) # NaT /\ Cell(r, y) # NaT)
    IN  [computed |-> TRUE,
         default |-> DefaultCorrelationCol(NumericCols(columns)),
         col |-> x,
         pairs |-> [i \in 1..Len(both) |-> Point(Cell(both[i], x), Cell(both[i], y))]]

(***************************************************************************)
(* State.                                                                  *)
(***************************************************************************)
VARIABLES
    file,                    \* what "Solar Power Plant Data.csv" holds
    cache,                   \* the st.cache_data entry of load_and_process_data
    parses,                  \* how often the body of the loader has run
    rerun,                   \* the script has been rerun in this session
    pc,                      \* where the current pass is
    status,                  \* how the current pass ended, "running" until then
    diag,                    \* the st.error the loader reported, "none" if none
    df,                      \* the table the loader returned to this pass
    date_range,              \* what st.sidebar.date_input returned
    sidebar_warning,         \* the "pick two dates" advisory was shown
    df_filtered,             \* the rows of df_filtered
    generation_cols,
    selected_generation_col,
    stats,                   \* mean_gen .. max_gen
    df_resampled,
    hourly_avg,
    correlation

vars == << file, cache, parses, rerun, pc, status, diag, df, date_range,
           sidebar_warning, df_filtered, generation_cols,
           selected_generation_col, stats, df_resampled, hourly_avg,
           correlation >>

passVars == << date_range, sidebar_warning, df_filtered, generation_cols,
               selected_generation_col, stats, df_resampled, hourly_avg,
               correlation >>

env == << file, cache, parses >>

FreshPass(p, st, dg, d, dr, sw, dff, gc, sel, sts, rs, ha, co) ==
    /\ p = "load"
    /\ st = "running"
    /\ dg = "none"
    /\ d = EmptyFrame
    /\ dr = <<>>
    /\ sw = FALSE
    /\ dff = <<>>
    /\ gc = <<>>
    /\ sel = NoCol
    /\ sts = NoStats
    /\ rs = NoSeries
    /\ ha = NoProfile
    /\ co = NoCorrelation

Init ==
    /\ file \in Sources
    /\ cache = NoCache
    /\ parses = 0
    /\ rerun = FALSE
    /\ FreshPass(pc, status, diag, df, date_range, sidebar_warning,
                 df_filtered, generation_cols, selected_generation_col,
                 stats, df_resampled, hourly_avg, correlation)

\* the pass ends here: st.stop(), an exception, or the end of the script
Finish(outcome) ==
    /\ status' = outcome
    /\ pc' = "done"

(***************************************************************************)
(* Lines 48-53 and 174-175: the cached load and the test of df.empty.      *)
(***************************************************************************)
RunLoad ==
    /\ pc = "load"
    /\ LET result == CachedLoad(cache, file)
       IN  /\ cache' = [filled |-> TRUE, value |-> result]
           /\ parses' = IF CacheHit(cache) THEN parses ELSE parses + 1
           /\ df' = result.df
           /\ diag' = result.diag
           /\ IF IsEmpty(result.df)
              THEN Finish("load-failed")
              ELSE pc' = "date_input" /\ status' = "running"
    /\ UNCHANGED << file, rerun, passVars >>

(***************************************************************************)
(* Lines 58-65: the date bounds and the date widget.                       *)
(***************************************************************************)
DateRanges(days) == SeqsUpTo(days, 2)

\* the dates the widget can show when its bounds are NaT
WidgetDates ==
    LET ds == {DateOf(ToDatetime(r.raw)) : r \in RawRows} \ {NaT}
    IN  SetMin(ds)..SetMax(ds)

\* min_date and max_date are dates: the widget returns zero, one or two
\* dates between them
DateInput ==
    /\ pc = "date_input"
    /\ MinDate(df.rows) # NaT
    /\ date_range' \in DateRanges(MinDate(df.rows)..MaxDate(df.rows))
    /\ pc' = "filter"
    /\ UNCHANGED << env, rerun, status, diag, df, sidebar_warning, df_filtered,
                    generation_cols, selected_generation_col, stats,
                    df_resampled, hourly_avg, correlation >>

\* min_date and max_date are NaT (no row has a timestamp): the call may
\* raise, or return some selection
DateInputNaT ==
    /\ pc = "date_input"
    /\ MinDate(df.rows) = NaT
    /\ \/ Finish("exception") /\ UNCHANGED date_range
       \/ /\ date_range' \in DateRanges(WidgetDates)
          /\ pc' = "filter"
          /\ UNCHANGED status
    /\ UNCHANGED << env, rerun, diag, df, sidebar_warning, df_filtered,
                    generation_cols, selected_generation_col, stats,
                    df_resampled, hourly_avg, correlation >>

(***************************************************************************)
(* Lines 67-76: the slice and the empty-range guard.                       *)
(***************************************************************************)
StartDate == Midnight(date_range[1])
EndDate == Midnight(date_range[2])

\* what the guard of line 74 does with the filtered rows
GuardEmpty(rows) ==
    IF rows = <<>> THEN Finish("empty-filtered-range")
    ELSE pc' = "classify" /\ UNCHANGED status

FilterRange ==
    /\ pc = "filter"
    /\ Len(date_range) = 2
    /\ IF SliceRaises(df.rows, StartDate, EndDate)
       THEN Finish("exception") /\ UNCHANGED df_filtered
       ELSE /\ df_filtered' = LocSlice(df.rows, StartDate, EndDate)
            /\ GuardEmpty(df_filtered')
    /\ UNCHANGED << env, rerun, diag, df, date_range, sidebar_warning,
                    generation_cols, selected_generation_col, stats,
                    df_resampled, hourly_avg, correlation >>

FilterNone ==
    /\ pc = "filter"
    /\ Len(date_range) # 2
    /\ df_filtered' = df.rows
    /\ sidebar_warning' = TRUE
    /\ GuardEmpty(df_filtered')
    /\ UNCHANGED << env, rerun, diag, df, date_range, generation_cols,
                    selected_generation_col, stats, df_resampled, hourly_avg,
                    correlation >>

(***************************************************************************)
(* Lines 78-93: the generation columns and the selected one.               *)
(***************************************************************************)
Classify ==
    /\ pc = "classify"
    /\ generation_cols' = GenerationCols(df.columns)
    /\ IF generation_cols' = <<>>
       THEN Finish("no-generation-column")
       ELSE pc' = "select" /\ UNCHANGED status
    /\ UNCHANGED << env, rerun, diag, df, date_range, sidebar_warning, df_filtered,
                    selected_generation_col, stats, df_resampled, hourly_avg,
                    correlation >>

SelectColumn ==
    /\ pc = "select"
    /\ \E i \in 1..Len(generation_cols) :
          /\ selected_generation_col' = generation_cols[i]
          /\ IF ~IsNumeric(generation_cols[i])
             THEN Finish("invalid-column-type")
             ELSE pc' = "stats" /\ UNCHANGED status
    /\ UNCHANGED << env, rerun, diag, df, date_range, sidebar_warning, df_filtered,
                    generation_cols, stats, df_resampled, hourly_avg,
                    correlation >>

(***************************************************************************)
(* Lines 95-172: the outputs.                                              *)
(***************************************************************************)
Statistics ==
    /\ pc = "stats"
    /\ stats' = SummaryStats(df_filtered, selected_generation_col)
    /\ pc' = "resample"
    /\ UNCHANGED << env, rerun, status, diag, df, date_range, sidebar_warning,
                    df_filtered, generation_cols, selected_generation_col,
                    df_resampled, hourly_avg, correlation >>

Trend ==
    /\ pc = "resample"
    /\ \E option \in ResampleOptions :
          IF InResampleMap(option) /\ ResampleRaises(df_filtered)
          THEN Finish("exception") /\ UNCHANGED df_resampled
          ELSE /\ df_resampled' =
                     Resampled(df_filtered, selected_generation_col, option)
               /\ pc' = "hourly"
               /\ UNCHANGED status
    /\ UNCHANGED << env, rerun, diag, df, date_range, sidebar_warning, df_filtered,
                    generation_cols, selected_generation_col, stats,
                    hourly_avg, correlation >>

HourlyProfile ==
    /\ pc = "hourly"
    /\ hourly_avg' = HourlyAvg(df_filtered, selected_generation_col)
    /\ pc' = "correlate"
    /\ UNCHANGED << env, rerun, status, diag, df, date_range, sidebar_warning,
                    df_filtered, generation_cols, selected_generation_col,
                    stats, df_resampled, correlation >>

Correlate ==
    /\ pc = "correlate"
    /\ \E i \in 1..Len(NumericCols(df.columns)) :
          correlation' = Correlation(df_filtered, df.columns,
                                     NumericCols(df.columns)[i],
                                     selected_generation_col)
    /\ Finish("complete")
    /\ UNCHANGED << env, rerun, diag, df, date_range, sidebar_warning, df_filtered,
                    generation_cols, selected_generation_col, stats,
                    df_resampled, hourly_avg >>

(***************************************************************************)
(* A widget change reruns the script from the top, in the same session.    *)
(***************************************************************************)
Rerun ==
    /\ pc = "done"
    /\ FreshPass(pc', status', diag', df', date_range', sidebar_warning',
                 df_filtered', generation_cols', selected_generation_col',
                 stats', df_resampled', hourly_avg', correlation')
    /\ rerun' = TRUE
    /\ UNCHANGED env

Next ==
    \/ RunLoad
    \/ DateInput
    \/ DateInputNaT
    \/ FilterRange
    \/ FilterNone
    \/ Classify
    \/ SelectColumn
    \/ Statistics
    \/ Trend
    \/ HourlyProfile
    \/ Correlate
    \/ Rerun

Spec == Init /\ [][Next]_vars

(***************************************************************************)
(* The session with a file that may be replaced on disk, over the sources  *)
(* with a short body.                                                      *)
(***************************************************************************)
\* one row with a timestamp and one without
CacheRawRows ==
    { RawRow(RawStamp(31, 1, 2020, 0, 0), 1, 10, 21),
      RawRow(RawStamp(31, 2, 2020, 10, 0), 16, 50, 25) }

CacheSources ==
    {SourceMissing, SourceMalformed}
    \cup {Source("table", h, rows) :
            h \in {HeaderStandard, HeaderNoTimestamp},
            rows \in SeqsUpTo(CacheRawRows, MaxRowsAlt)}

\* the file on disk is replaced while the session lives
SourceModified ==
    /\ \E src \in CacheSources : src # file /\ file' = src
    /\ UNCHANGED << cache, parses, rerun, pc, status, diag, df, passVars >>

InitCache == Init /\ file \in CacheSources

NextCache == Next \/ SourceModified

SpecCache == InitCache /\ [][NextCache]_vars

(***************************************************************************)
(* Vocabulary of the properties.                                           *)
(***************************************************************************)
\* the loader has returned to the current pass
Loaded == pc # "load"

\* lines 67-76 have run to completion in the current pass (the slice did
\* not raise): an exception after them comes from the resample, after the
\* statistics
Filtered ==
    \/ pc \in {"classify", "select", "stats", "resample", "hourly", "correlate"}
    \/ status \in {"empty-filtered-range", "no-generation-column",
                   "invalid-column-type", "complete"}
    \/ status = "exception" /\ stats.computed

\* line 79 has run in the current pass
Classified ==
    \/ pc \in {"select", "stats", "resample", "hourly", "correlate"}
    \/ status \in {"no-generation-column", "invalid-column-type", "complete"}
    \/ status = "exception" /\ stats.computed

NothingComputed ==
    /\ ~stats.computed
    /\ ~df_resampled.computed
    /\ ~hourly_avg.computed
    /\ ~correlation.computed

TwoDates == Len(date_range) = 2

\* the positions of the filtered rows that have a timestamp
Stamped(rows) == {k \in 1..Len(rows) : rows[k].ts # NaT}

\* the sum of column c over the rows at the positions S
RECURSIVE SumCells(_, _, _)
SumCells(rows, c, S) ==
    IF S = {} THEN 0
    ELSE LET k == CHOOSE k \in S : TRUE
         IN  Cell(rows[k], c) + SumCells(rows, c, S \ {k})

DaySeries == df_resampled.computed /\ df_resampled.option = "Harian"

WideSeries == df_resampled.computed /\ df_resampled.option \in {"Mingguan", "Bulanan"}

\* the names of the model's headers that hold a keyword, spelled out
GenerationNames == {NameSystemProduction, NamePowerKw, NamePowerNote}

SameMonth(a, b) ==
    /\ CivilFromDays(a).y = CivilFromDays(b).y
    /\ CivilFromDays(a).m = CivilFromDays(b).m

(***************************************************************************)
(* C1.  RangeFilter keeps a row iff start 00:00 <= timestamp <= end 23:59, *)
(* so that start = end = D keeps exactly the rows of day D.                *)
(* The slice of line 69 ends at end 00:00: this statement is violated.     *)
(***************************************************************************)
C1_RangeInclusiveOfEndDay ==
    (Filtered /\ TwoDates) =>
        df_filtered =
            SelectSeq(df.rows,
                      LAMBDA r : /\ r.ts # NaT
                                 /\ StartDate <= r.ts
                                 /\ r.ts <= EndDate + MinutesPerDay - 1)

\* the guard of lines 74-76 alone: an empty df_filtered ends the pass with
\* the warning and nothing computed (it holds in every reachable state)
C2_GuardStopsEmptyPass ==
    (Filtered /\ df_filtered = <<>>) =>
        /\ status = "empty-filtered-range"
        /\ pc = "done"
        /\ diag = "none"
        /\ NothingComputed

(***************************************************************************)
(* C2.  An empty filtered table, which every selection with start > end    *)
(* gives, is reported as the empty-range warning and stops the pass before *)
(* any statistic, resample, hourly profile or correlation.                 *)
(* The second part is violated on a file in descending order.              *)
(***************************************************************************)
C2_EmptyRangeStops ==
    /\ C2_GuardStopsEmptyPass
    /\ (Filtered /\ TwoDates /\ date_range[1] > date_range[2]) =>
            df_filtered = <<>>

(***************************************************************************)
(* C3.  As claimed: the daily series has exactly one entry per calendar    *)
(* day that holds a filtered row (no entry for a day without rows), each   *)
(* the sum of the column over the rows of that day.  Violated.             *)
(***************************************************************************)
C3_DailySparse ==
    DaySeries =>
        LET s    == df_resampled.series
            days == {DateOf(df_filtered[k].ts) : k \in Stamped(df_filtered)}
        IN  /\ Len(s) = Cardinality(days)
            /\ {s[i].x : i \in 1..Len(s)} = {Midnight(d) : d \in days}
            /\ \A i \in 1..Len(s) :
                  s[i].y = SumCells(df_filtered, selected_generation_col,
                                    {k \in Stamped(df_filtered) :
                                        Midnight(DateOf(df_filtered[k].ts)) = s[i].x})

(***************************************************************************)
(* C3, amended.  The daily series has exactly one entry per calendar day   *)
(* from the first to the last day that holds a filtered row, in order and  *)
(* keyed by the day's midnight; each entry is the sum of the column over   *)
(* the rows of that day, which is 0 for a day inside the span without rows.*)
(***************************************************************************)
C3_DailyDense ==
    DaySeries =>
        LET s  == df_resampled.series
            lo == MinDate(df_filtered)
            hi == MaxDate(df_filtered)
        IN  /\ Len(s) = hi - lo + 1
            /\ \A i \in 1..Len(s) :
                  /\ s[i].x = (lo + i - 1) * MinutesPerDay
                  /\ s[i].y = SumCells(df_filtered, selected_generation_col,
                                       {k \in Stamped(df_filtered) :
                                           df_filtered[k].ts \div MinutesPerDay = lo + i - 1})

\* C3 witness: a daily series with an entry for a day that has no row
C3_Witness ==
    /\ DaySeries
    /\ \E i \in 1..Len(df_resampled.series) :
          /\ df_resampled.series[i].y = 0
          /\ \A k \in Stamped(df_filtered) :
                DateOf(df_filtered[k].ts) # DateOf(df_resampled.series[i].x)

(***************************************************************************)
(* C4.  As claimed: a source whose header lacks 'Date-Hour(NMT)' ends in   *)
(* schema-mismatch with the empty table.  Violated by a header that        *)
(* already names the column 'DATE_TIME'.                                   *)
(***************************************************************************)
C4_MissingHeaderIsSchemaMismatch ==
    (Loaded /\ file.kind = "table" /\ ~HasColumn(file.header, NameDateHourNMT)) =>
        /\ diag = "schema-mismatch"
        /\ df = EmptyFrame

(***************************************************************************)
(* C4, amended.  A source whose header has neither 'Date-Hour(NMT)' nor    *)
(* 'DATE_TIME' ends in schema-mismatch, not source-unavailable or          *)
(* malformed-input, with the empty table, and the pass stops as a failed   *)
(* load with nothing computed.                                             *)
(***************************************************************************)
C4_NoTimestampHeaderIsSchemaMismatch ==
    (/\ Loaded
     /\ file.kind = "table"
     /\ ~HasColumn(file.header, NameDateHourNMT)
     /\ ~HasColumn(file.header, NameDATE_TIME)) =>
        /\ diag = "schema-mismatch"
        /\ df = EmptyFrame
        /\ status = "load-failed"
        /\ df_filtered = <<>>
        /\ NothingComputed

\* C4 witness: a table with data rows and no timestamp column has been loaded
C4_Witness ==
    /\ Loaded
    /\ file.kind = "table"
    /\ file.header = HeaderNoTimestamp
    /\ file.rows # <<>>
    /\ diag = "schema-mismatch"

(***************************************************************************)
(* C5.  No exception escapes a pass; in particular slicing a table by the  *)
(* date range never raises.  Stated for the tables that have a parseable   *)
(* timestamp, where the date bounds are dates: violated by the KeyError of *)
(* the slice on an index that is not monotonic.                            *)
(***************************************************************************)
C5_NoExceptionEscapes ==
    (Loaded /\ MinDate(df.rows) # NaT) => status # "exception"

(***************************************************************************)
(* C6.  The cache is populated at most once: the loader body runs only in  *)
(* the first pass, every pass gets the cached table and diagnostic, the    *)
(* entry never changes once filled, hence only if ... the source changes.  *)
(***************************************************************************)
C6_CachePopulatedOnce ==
    /\ [](/\ parses <= 1
          /\ cache.filled => parses = 1
          /\ Loaded => /\ cache.filled
                       /\ df = cache.value.df
                       /\ diag = cache.value.diag)
    /\ [][cache.filled => cache' = cache]_vars
    /\ [][(cache.filled /\ cache' # cache) => file' # file]_vars

\* C6 witness: a rerun got the cached table although the file no longer
\* holds it
C6_Witness ==
    /\ rerun
    /\ Loaded
    /\ parses = 1
    /\ df = cache.value.df
    /\ ~IsEmpty(df)
    /\ LoadAndProcessData(file) # cache.value

C8_UnparseableRowsExcluded ==
    (Filtered /\ MinDate(df.rows) # NaT) =>
        /\ \A k \in 1..Len(df_filtered) : df_filtered[k].ts # NaT
        /\ stats.computed => stats.count = Cardinality(Stamped(df_filtered))
        /\ correlation.computed =>
              Len(correlation.pairs) <= Cardinality(Stamped(df_filtered))

(***************************************************************************)
(* C9.  As claimed: weekly and monthly entries are keyed by the start of   *)
(* the calendar week (Monday) or month (the 1st), each is the sum over the *)
(* rows of [start, next start), and every row falls in exactly one.        *)
(* Violated: the keys are the last days.                                   *)
(***************************************************************************)
C9_KeyedByBucketStart ==
    WideSeries =>
        LET s == df_resampled.series
            weekly == df_resampled.option = "Mingguan"
            Key(i) == DateOf(s[i].x)
            Covers(i, day) ==
                IF weekly THEN Key(i) <= day /\ day <= Key(i) + 6
                ELSE SameMonth(Key(i), day)
        IN  /\ \A i \in 1..Len(s) :
                  /\ s[i].x = Midnight(Key(i))
                  /\ IF weekly THEN Weekday(Key(i)) = 0
                     ELSE CivilFromDays(Key(i)).d = 1
                  /\ s[i].y = SumCells(df_filtered, selected_generation_col,
                                       {k \in Stamped(df_filtered) :
                                           Covers(i, DateOf(df_filtered[k].ts))})
            /\ \A k \in Stamped(df_filtered) :
                  Cardinality({i \in 1..Len(s) :
                                  Covers(i, DateOf(df_filtered[k].ts))}) = 1

(***************************************************************************)
(* C9, amended.  Every filtered row with a timestamp contributes to        *)
(* exactly one entry, that of the calendar week (Monday to Sunday) or      *)
(* calendar month that holds it, and the entry is keyed by midnight of the *)
(* LAST day of that week (its Sunday) or month, not by its start.          *)
(***************************************************************************)
C9_KeyedByBucketLastDay ==
    WideSeries =>
        LET s == df_resampled.series
            weekly == df_resampled.option = "Mingguan"
            Key(i) == DateOf(s[i].x)
            Covers(i, day) ==
                IF weekly THEN Key(i) - 6 <= day /\ day <= Key(i)
                ELSE SameMonth(Key(i), day)
        IN  /\ \A i \in 1..Len(s) :
                  /\ s[i].x = Midnight(Key(i))
                  /\ IF weekly THEN Weekday(Key(i)) = 6
                     ELSE CivilFromDays(Key(i) + 1).d = 1
                  /\ s[i].y = SumCells(df_filtered, selected_generation_col,
                                       {k \in Stamped(df_filtered) :
                                           Covers(i, DateOf(df_filtered[k].ts))})
            /\ \A k \in Stamped(df_filtered) :
                  Cardinality({i \in 1..Len(s) :
                                  Covers(i, DateOf(df_filtered[k].ts))}) = 1

\* C9 witness: two buckets, and a row later than the key of its own bucket
C9_Witness ==
    /\ WideSeries
    /\ Len(df_resampled.series) >= 2
    /\ \E k \in Stamped(df_filtered), i \in 1..Len(df_resampled.series) :
          /\ df_filtered[k].ts > df_resampled.series[i].x
          /\ df_filtered[k].ts < df_resampled.series[i].x + MinutesPerDay
          /\ df_resampled.series[i].y >= df_filtered[k].gen

(***************************************************************************)
(* C10.  The failed-load outcome is reported exactly when one of the three *)
(* load failures occurred.  Violated by a well-formed file with a header   *)
(* and no data rows.                                                       *)
(***************************************************************************)
C10_LoadFailedIffDiagnostic ==
    Loaded =>
        /\ status = "load-failed" <=> diag # "none"
        /\ IsEmpty(df) <=> diag # "none"
        /\ status = "load-failed" => df_filtered = <<>> /\ NothingComputed

====
